---- MODULE Spec2Model ----
(***************************************************************************)
(* A model of mock-db-connector: the QueryBuilder matching engine          *)
(* (src/lib/QueryBuilder.js) and the MockCollection store built on it      *)
(* (src/unnamed/part_000, lib/MockCollection.js), and the MockDatabase     *)
(* registry of collections (second part of src/lib/QueryBuilder.js).       *)
(*                                                                         *)
(* JavaScript values are records [t, n, s]: t is the kind, n the number    *)
(* (or the address of an array / object in the heap), s the string as a    *)
(* sequence of UTF-16 code units.  Arrays and objects live in the heap so  *)
(* that identity (===) and aliasing are those of the program.              *)
(***************************************************************************)
EXTENDS Integers, Sequences, FiniteSets, TLC

VARIABLES
  heap,       \* address -> cell: every object and array the program holds
  documents,  \* this.documents of the collection / the array given to QueryBuilder
  callerDoc,  \* the caller's own reference to the document it last inserted (0: none)
  results,    \* the array last returned to the caller by execute / find / findOne
  idCount,    \* how many identifiers _generateId has handed out
  last,       \* the last operation: its name, its query and how it ended
  collections,\* this.collections of the database: name -> instance (0: no such key)
  store,      \* instance -> this.documents of that MockCollection, each document
              \* as its fields (<<>> for an instance that does not exist)
  calls       \* the updateOne calls in flight: call -> its position and locals

vars == <<heap, documents, callerDoc, results, idCount, last, collections, store, calls>>

(***************************************************************************)
(* Bounds of the model.                                                    *)
(***************************************************************************)
MaxLen == 2      \* longest document list handed to a QueryBuilder
MaxDocs == 2     \* most documents the collection stores
MaxArr == 2      \* longest nested array a caller builds by push
MaxIds == 2      \* most identifiers _generateId hands out in a run
MaxInst == 2     \* most MockCollection instances alive at once

(***************************************************************************)
(* JavaScript values.                                                      *)
(***************************************************************************)
Undef == [t |-> "undefined", n |-> 0, s |-> <<>>]
Null == [t |-> "null", n |-> 0, s |-> <<>>]
NaN == [t |-> "nan", n |-> 0, s |-> <<>>]
True == [t |-> "boolean", n |-> 1, s |-> <<>>]
False == [t |-> "boolean", n |-> 0, s |-> <<>>]
Num(i) == [t |-> "number", n |-> i, s |-> <<>>]
Str(cs) == [t |-> "string", n |-> 0, s |-> cs]
Ref(r) == [t |-> "ref", n |-> r, s |-> <<>>]
\* a built-in function: n tells it from every other, s is its source text
Fn(i, source) == [t |-> "function", n |-> i, s |-> source]
\* Object.prototype and Array.prototype
ObjectProto == [t |-> "prototype", n |-> 1, s |-> <<>>]
ArrayProto == [t |-> "prototype", n |-> 2, s |-> <<>>]

\* typeof v
TypeOf(h, v) ==
  CASE v.t = "nan" -> "number"
    [] v.t = "null" -> "object"
    [] v.t = "ref" -> "object"
    [] v.t = "prototype" -> "object"
    [] OTHER -> v.t

\* Array.isArray(v)
IsArray(h, v) == (v.t = "ref" /\ h[v.n].k = "array") \/ v = ArrayProto

\* the truthiness of v in a condition
Truthy(v) ==
  CASE v.t \in {"undefined", "null", "nan"} -> FALSE
    [] v.t = "boolean" -> v.n = 1
    [] v.t = "number" -> v.n # 0
    [] v.t = "string" -> v.s # <<>>
    [] OTHER -> TRUE

\* Strings used by the model, as code units.
S_empty == <<>>
S_1 == <<49>>
S_2 == <<50>>
S_10 == <<49, 48>>
S_a == <<97>>
S_b == <<98>>
S_caret_a == <<94, 97>>
S_paren == <<40>>
S_undefined == <<117, 110, 100, 101, 102, 105, 110, 101, 100>>
S_null == <<110, 117, 108, 108>>
S_true == <<116, 114, 117, 101>>
S_false == <<102, 97, 108, 115, 101>>
S_NaN == <<78, 97, 78>>
S_object == <<91, 111, 98, 106, 101, 99, 116, 32, 79, 98, 106, 101, 99, 116, 93>>
S_comma == <<44>>

IsDigit(c) == c \in 48..57
IsSpace(c) == c \in {9, 10, 11, 12, 13, 32}

RECURSIVE NatToStr(_)
NatToStr(i) ==
  IF i < 10 THEN <<48 + i>> ELSE NatToStr(i \div 10) \o <<48 + (i % 10)>>

\* Number.prototype.toString for the integers of the model
IntToStr(i) == (IF i < 0 THEN <<45>> ELSE <<>>) \o NatToStr(IF i < 0 THEN 0 - i ELSE i)

RECURSIVE DigitsToNat(_, _)
DigitsToNat(cs, acc) ==
  IF cs = <<>> THEN acc ELSE DigitsToNat(Tail(cs), 10 * acc + (Head(cs) - 48))

\* String.prototype.trim: cs from its first to its last character that is
\* no white space
Trim(cs) ==
  LET keep == { i \in 1..Len(cs) : ~ IsSpace(cs[i]) }
  IN IF keep = {} THEN <<>>
     ELSE SubSeq(cs, CHOOSE i \in keep : \A j \in keep : i <= j,
                     CHOOSE i \in keep : \A j \in keep : j <= i)

AllDigits(cs) == cs # <<>> /\ \A i \in 1..Len(cs) : IsDigit(cs[i])

\* StringToNumber on decimal integer literals: surrounding white space is
\* dropped, the empty string is 0, an optionally signed run of digits is its
\* value, and every other string over the model's characters is NaN.
StringToNumber(cs) ==
  LET t == Trim(cs)
      signed == t # <<>> /\ Head(t) \in {43, 45}
      digits == IF signed THEN Tail(t) ELSE t
  IN IF t = <<>> THEN Num(0)
     ELSE IF ~ AllDigits(digits) THEN NaN
     ELSE Num((IF Head(t) = 45 THEN -1 ELSE 1) * DigitsToNat(digits, 0))

\* ToString of a primitive
PrimToStr(v) ==
  CASE v.t = "undefined" -> S_undefined
    [] v.t = "null" -> S_null
    [] v.t = "nan" -> S_NaN
    [] v.t = "boolean" -> IF v.n = 1 THEN S_true ELSE S_false
    [] v.t = "number" -> IntToStr(v.n)
    [] OTHER -> v.s

\* Array.prototype.join(","): undefined and null elements give the empty
\* string.  The arrays of the model hold primitives.
RECURSIVE Join(_)
Join(es) ==
  IF es = <<>> THEN <<>>
  ELSE LET e == IF Head(es).t \in {"undefined", "null"} THEN <<>> ELSE PrimToStr(Head(es))
       IN IF Len(es) = 1 THEN e ELSE e \o S_comma \o Join(Tail(es))

\* ToPrimitive: an array becomes its join (Array.prototype, which is empty,
\* the empty string), a plain object "[object Object]", a function its
\* source text
ToPrimitive(h, v) ==
  IF v.t = "function" THEN Str(v.s)
  ELSE IF v.t = "prototype" THEN (IF v = ArrayProto THEN Str(<<>>) ELSE Str(S_object))
  ELSE IF v.t # "ref" THEN v
  ELSE IF h[v.n].k = "array" THEN Str(Join(h[v.n].e))
  ELSE Str(S_object)

\* ToString
ToStr(h, v) == PrimToStr(ToPrimitive(h, v))

\* ToNumber of a primitive
ToNumber(v) ==
  CASE v.t = "undefined" -> NaN
    [] v.t = "null" -> Num(0)
    [] v.t = "boolean" -> Num(v.n)
    [] v.t = "string" -> StringToNumber(v.s)
    [] OTHER -> v

Bool3(b) == IF b THEN "true" ELSE "false"

\* x === y
StrictEquals(x, y) == x.t = y.t /\ x.t # "nan" /\ x.n = y.n /\ x.s = y.s

\* SameValueZero(x, y), the comparison of Array.prototype.includes
SameValueZero(x, y) == x.t = y.t /\ x.n = y.n /\ x.s = y.s

\* code-unit order of two strings: a is before b when, at the first place
\* where they differ, a has ended or has the smaller code unit
StrLess(a, b) ==
  \E i \in 1..Len(b) :
    /\ \A j \in 1..(i - 1) : j <= Len(a) /\ a[j] = b[j]
    /\ i > Len(a) \/ a[i] < b[i]

\* The abstract relational comparison x < y: "true", "false" or "undefined"
\* (a NaN on either side).  Both operands go through ToPrimitive; two
\* strings compare by code units, anything else through ToNumber.
LessThan(h, x, y) ==
  LET p == [i \in 1..2 |-> ToPrimitive(h, IF i = 1 THEN x ELSE y)]
  IN IF p[1].t = "string" /\ p[2].t = "string"
     THEN Bool3(StrLess(p[1].s, p[2].s))
     ELSE LET m == [i \in 1..2 |-> ToNumber(p[i])]
          IN IF m[1].t = "nan" \/ m[2].t = "nan" THEN "undefined"
             ELSE Bool3(m[1].n < m[2].n)

\* x > y, x >= y, x < y, x <= y: x > y is y < x and x <= y is not y < x, and
\* an undefined comparison makes each of them false
Relational(h, operator, x, y) ==
  LET swap == operator \in {"$gt", "$lte"}
      r == LessThan(h, IF swap THEN y ELSE x, IF swap THEN x ELSE y)
  IN IF operator \in {"$gt", "$lt"} THEN r = "true" ELSE r = "false"

(***************************************************************************)
(* Regular expressions.  new RegExp(value) compiles ToString(value) (the   *)
(* empty pattern for undefined).  The model covers the patterns made of an *)
(* optional leading ^ and literal characters, and the malformed pattern    *)
(* with an unclosed "(", which makes the constructor throw a SyntaxError.  *)
(***************************************************************************)
RegExpSource(h, value) == IF value.t = "undefined" THEN <<>> ELSE ToStr(h, value)

RegExpThrows(p) ==
  \E i \in 1..Len(p) : p[i] = 40 /\ ~ \E j \in (i + 1)..Len(p) : p[j] = 41

IsPrefix(p, cs) == Len(p) <= Len(cs) /\ SubSeq(cs, 1, Len(p)) = p

IsSubstring(p, cs) ==
  \E i \in 0..(Len(cs) - Len(p)) : SubSeq(cs, i + 1, i + Len(p)) = p

\* regex.test(cs) for a pattern that compiled
RegExpTest(p, cs) ==
  IF p # <<>> /\ Head(p) = 94 THEN IsPrefix(Tail(p), cs) ELSE IsSubstring(p, cs)

(***************************************************************************)
(* QueryBuilder.  A per-field outcome is "true", "false" or "throw".       *)
(***************************************************************************)
OperatorRegex(h, fieldValue, value) ==
  IF TypeOf(h, fieldValue) # "string" THEN "false"
  ELSE LET p == RegExpSource(h, value)
       IN IF RegExpThrows(p) THEN "throw"
          ELSE IF RegExpTest(p, fieldValue.s) THEN "true" ELSE "false"

\* value.includes(fieldValue) without the Array.isArray guard: a string
\* operand then answers by String.prototype.includes
OperatorIn_NoArrayCheck(h, fieldValue, value) ==
  IF IsArray(h, value)
  THEN value.t = "ref"
       /\ \E i \in 1..Len(h[value.n].e) : SameValueZero(h[value.n].e[i], fieldValue)
  ELSE value.t = "string" /\ IsSubstring(ToStr(h, fieldValue), value.s)

OperatorIn(h, fieldValue, value) ==
  IsArray(h, value) /\ value.t = "ref"
  /\ \E i \in 1..Len(h[value.n].e) : SameValueZero(h[value.n].e[i], fieldValue)

\* _matchesOperator whose default case lets an unknown operator pass
MatchesOperator_IgnoreUnknown(h, fieldValue, operator, value) ==
  CASE operator = "$eq" -> Bool3(StrictEquals(fieldValue, value))
    [] operator = "$ne" -> Bool3(~ StrictEquals(fieldValue, value))
    [] operator \in {"$gt", "$gte", "$lt", "$lte"} ->
         Bool3(Relational(h, operator, fieldValue, value))
    [] operator = "$in" -> Bool3(OperatorIn(h, fieldValue, value))
    [] operator = "$regex" -> OperatorRegex(h, fieldValue, value)
    [] OTHER -> "true"

\* _matchesOperator(fieldValue, operator, value)
MatchesOperator(h, fieldValue, operator, value) ==
  CASE operator = "$eq" -> Bool3(StrictEquals(fieldValue, value))
    [] operator = "$ne" -> Bool3(~ StrictEquals(fieldValue, value))
    [] operator \in {"$gt", "$gte", "$lt", "$lte"} ->
         Bool3(Relational(h, operator, fieldValue, value))
    [] operator = "$in" -> Bool3(OperatorIn(h, fieldValue, value))
    [] operator = "$regex" -> OperatorRegex(h, fieldValue, value)
    [] OTHER -> "false"

(***************************************************************************)
(* A query is [nul, es]: nul for a null / undefined query, es the entries  *)
(* of the query object in property order.  An entry is [key, lit, v, ops]: *)
(* either the value v written in place (a primitive or a reference to an   *)
(* array or object of the heap) or, with lit FALSE, an object literal      *)
(* whose properties in order are ops, each [op, v].                        *)
(***************************************************************************)
QLit(key, v) == [key |-> key, lit |-> TRUE, v |-> v, ops |-> <<>>]
QOps(key, ops) == [key |-> key, lit |-> FALSE, v |-> Undef, ops |-> ops]
Op(op, v) == [op |-> op, v |-> v]
Query(es) == [nul |-> FALSE, es |-> es]
NullQuery == [nul |-> TRUE, es |-> <<>>]

\* the property names of the indices 0, 1, 2, 3 of an array
IndexKeys == <<"0", "1", "2", "3">>

\* The properties every object inherits: the functions of Object.prototype,
\* each under its key with the name its source text shows, and the accessor
\* __proto__; an array inherits those of Array.prototype before them.
S_function == <<102, 117, 110, 99, 116, 105, 111, 110, 32>>
S_native == <<40, 41, 32, 123, 32, 91, 110, 97, 116, 105, 118, 101, 32, 99, 111, 100, 101, 93, 32, 125>>
FnSource(name) == S_function \o name \o S_native
ObjectProtoFns ==
  << [key |-> "constructor", name |-> <<79, 98, 106, 101, 99, 116>>],
     [key |-> "__defineGetter__", name |-> <<95, 95, 100, 101, 102, 105, 110, 101, 71, 101, 116, 116, 101, 114, 95, 95>>],
     [key |-> "__defineSetter__", name |-> <<95, 95, 100, 101, 102, 105, 110, 101, 83, 101, 116, 116, 101, 114, 95, 95>>],
     [key |-> "hasOwnProperty", name |-> <<104, 97, 115, 79, 119, 110, 80, 114, 111, 112, 101, 114, 116, 121>>],
     [key |-> "__lookupGetter__", name |-> <<95, 95, 108, 111, 111, 107, 117, 112, 71, 101, 116, 116, 101, 114, 95, 95>>],
     [key |-> "__lookupSetter__", name |-> <<95, 95, 108, 111, 111, 107, 117, 112, 83, 101, 116, 116, 101, 114, 95, 95>>],
     [key |-> "isPrototypeOf", name |-> <<105, 115, 80, 114, 111, 116, 111, 116, 121, 112, 101, 79, 102>>],
     [key |-> "propertyIsEnumerable", name |-> <<112, 114, 111, 112, 101, 114, 116, 121, 73, 115, 69, 110, 117, 109, 101, 114, 97, 98, 108, 101>>],
     [key |-> "toString", name |-> <<116, 111, 83, 116, 114, 105, 110, 103>>],
     [key |-> "valueOf", name |-> <<118, 97, 108, 117, 101, 79, 102>>],
     [key |-> "toLocaleString", name |-> <<116, 111, 76, 111, 99, 97, 108, 101, 83, 116, 114, 105, 110, 103>>] >>
ArrayProtoFns ==
  << [key |-> "constructor", name |-> <<65, 114, 114, 97, 121>>],
     [key |-> "at", name |-> <<97, 116>>],
     [key |-> "concat", name |-> <<99, 111, 110, 99, 97, 116>>],
     [key |-> "copyWithin", name |-> <<99, 111, 112, 121, 87, 105, 116, 104, 105, 110>>],
     [key |-> "fill", name |-> <<102, 105, 108, 108>>],
     [key |-> "find", name |-> <<102, 105, 110, 100>>],
     [key |-> "findIndex", name |-> <<102, 105, 110, 100, 73, 110, 100, 101, 120>>],
     [key |-> "findLast", name |-> <<102, 105, 110, 100, 76, 97, 115, 116>>],
     [key |-> "findLastIndex", name |-> <<102, 105, 110, 100, 76, 97, 115, 116, 73, 110, 100, 101, 120>>],
     [key |-> "lastIndexOf", name |-> <<108, 97, 115, 116, 73, 110, 100, 101, 120, 79, 102>>],
     [key |-> "pop", name |-> <<112, 111, 112>>],
     [key |-> "push", name |-> <<112, 117, 115, 104>>],
     [key |-> "reverse", name |-> <<114, 101, 118, 101, 114, 115, 101>>],
     [key |-> "shift", name |-> <<115, 104, 105, 102, 116>>],
     [key |-> "unshift", name |-> <<117, 110, 115, 104, 105, 102, 116>>],
     [key |-> "slice", name |-> <<115, 108, 105, 99, 101>>],
     [key |-> "sort", name |-> <<115, 111, 114, 116>>],
     [key |-> "splice", name |-> <<115, 112, 108, 105, 99, 101>>],
     [key |-> "includes", name |-> <<105, 110, 99, 108, 117, 100, 101, 115>>],
     [key |-> "indexOf", name |-> <<105, 110, 100, 101, 120, 79, 102>>],
     [key |-> "join", name |-> <<106, 111, 105, 110>>],
     [key |-> "keys", name |-> <<107, 101, 121, 115>>],
     [key |-> "entries", name |-> <<101, 110, 116, 114, 105, 101, 115>>],
     [key |-> "values", name |-> <<118, 97, 108, 117, 101, 115>>],
     [key |-> "forEach", name |-> <<102, 111, 114, 69, 97, 99, 104>>],
     [key |-> "filter", name |-> <<102, 105, 108, 116, 101, 114>>],
     [key |-> "flat", name |-> <<102, 108, 97, 116>>],
     [key |-> "flatMap", name |-> <<102, 108, 97, 116, 77, 97, 112>>],
     [key |-> "map", name |-> <<109, 97, 112>>],
     [key |-> "every", name |-> <<101, 118, 101, 114, 121>>],
     [key |-> "some", name |-> <<115, 111, 109, 101>>],
     [key |-> "reduce", name |-> <<114, 101, 100, 117, 99, 101>>],
     [key |-> "reduceRight", name |-> <<114, 101, 100, 117, 99, 101, 82, 105, 103, 104, 116>>],
     [key |-> "toLocaleString", name |-> <<116, 111, 76, 111, 99, 97, 108, 101, 83, 116, 114, 105, 110, 103>>],
     [key |-> "toString", name |-> <<116, 111, 83, 116, 114, 105, 110, 103>>],
     [key |-> "toReversed", name |-> <<116, 111, 82, 101, 118, 101, 114, 115, 101, 100>>],
     [key |-> "toSorted", name |-> <<116, 111, 83, 111, 114, 116, 101, 100>>],
     [key |-> "toSpliced", name |-> <<116, 111, 83, 112, 108, 105, 99, 101, 100>>],
     [key |-> "with", name |-> <<119, 105, 116, 104>>] >>

FnKeys(fns) == { fns[i].key : i \in 1..Len(fns) }
FnAt(fns, key, base) ==
  Fn(base + (CHOOSE i \in 1..Len(fns) : fns[i].key = key),
     FnSource(fns[CHOOSE i \in 1..Len(fns) : fns[i].key = key].name))

\* obj[key] for a key that is no own property of a plain object
ObjectProtoField(key) ==
  IF key = "__proto__" THEN ObjectProto
  ELSE IF key \in FnKeys(ObjectProtoFns) THEN FnAt(ObjectProtoFns, key, 0)
  ELSE Undef

\* arr[key] of an array: an index, length, or what the array inherits
ArrayField(es, key) ==
  IF \E i \in 1..Len(es) : i <= Len(IndexKeys) /\ IndexKeys[i] = key
  THEN es[CHOOSE i \in 1..Len(es) : i <= Len(IndexKeys) /\ IndexKeys[i] = key]
  ELSE IF key = "length" THEN Num(Len(es))
  ELSE IF key = "__proto__" THEN ArrayProto
  ELSE IF key \in FnKeys(ArrayProtoFns) THEN FnAt(ArrayProtoFns, key, Len(ObjectProtoFns))
  ELSE ObjectProtoField(key)

\* key in obj, for a plain object with the own properties ps
HasProperty(ps, key) ==
  key \in DOMAIN ps \/ key = "__proto__" \/ key \in FnKeys(ObjectProtoFns)

\* doc[key] of a lookup that gives null for a field the document lacks
GetField_NullDefault(cell, key) == IF key \in DOMAIN cell.p THEN cell.p[key] ELSE Null

\* doc[key]: an own property, else what the prototype chain gives, else
\* undefined
GetField(cell, key) ==
  IF key \in DOMAIN cell.p THEN cell.p[key]
  ELSE IF cell.k = "array" THEN ArrayField(cell.e, key)
  ELSE ObjectProtoField(key)

\* The operators a query value stands for, in the order the loop of
\* _matchesQuery meets them: those of an object literal; those of an object
\* of the heap given as the value (one property after the other; the model
\* gives such objects no $regex, so their order does not show); and for
\* every other value, arrays, null and the falsy ones included, the one
\* operator $eq.
RECURSIVE PropsAsOps(_)
PropsAsOps(ps) ==
  IF DOMAIN ps = {} THEN <<>>
  ELSE LET k == CHOOSE x \in DOMAIN ps : TRUE
       IN <<Op(k, ps[k])>> \o PropsAsOps([x \in DOMAIN ps \ {k} |-> ps[x]])

\* the test for an operator object without its "queryValue &&": null, whose
\* typeof is "object", then counts as an object with no operators
EntryOps_NoNullGuard(h, e) ==
  IF ~ e.lit THEN e.ops
  ELSE IF TypeOf(h, e.v) = "object" /\ ~ IsArray(h, e.v)
       THEN (IF e.v.t = "ref" THEN PropsAsOps(h[e.v.n].p) ELSE <<>>)
       ELSE <<Op("$eq", e.v)>>

EntryOps(h, e) ==
  IF ~ e.lit THEN e.ops
  ELSE IF Truthy(e.v) /\ TypeOf(h, e.v) = "object" /\ ~ IsArray(h, e.v)
       THEN (IF e.v.t = "ref" THEN PropsAsOps(h[e.v.n].p) ELSE <<>>)
       ELSE <<Op("$eq", e.v)>>

\* The first outcome in outs that is not "true", and "true" if there is
\* none: a loop that returns false at the first failure, and that a throw
\* leaves, gives this.
FirstFailure(outs) ==
  IF \A i \in 1..Len(outs) : outs[i] = "true" THEN "true"
  ELSE outs[CHOOSE i \in 1..Len(outs) :
              outs[i] # "true" /\ \A j \in 1..(i - 1) : outs[j] = "true"]

\* the inner loop of _matchesQuery, over the operators of one field
MatchesOps(h, docValue, ops) ==
  FirstFailure([i \in 1..Len(ops) |-> MatchesOperator(h, docValue, ops[i].op, ops[i].v)])

\* one turn of the outer loop of _matchesQuery
MatchesEntry(h, cell, e) == MatchesOps(h, GetField(cell, e.key), EntryOps(h, e))

\* _matchesQuery that returns from inside the loop after the first field
MatchesQuery_FirstOnly(h, d, query) ==
  IF query.es = <<>> THEN "true" ELSE MatchesEntry(h, h[d], query.es[1])

\* _matchesQuery(doc, query)
MatchesQuery(h, d, query) ==
  FirstFailure([i \in 1..Len(query.es) |-> MatchesEntry(h, h[d], query.es[i])])

\* the outcome of a call: the array it returns, or a throw
Returns(ds) == [ok |-> TRUE, docs |-> ds]
Throws == [ok |-> FALSE, docs |-> <<>>]

\* a filter that collects the accepted elements last to first
RECURSIVE Filter_Reversed(_, _)
Filter_Reversed(docs, outs) ==
  IF docs = <<>> THEN <<>>
  ELSE Filter_Reversed(Tail(docs), Tail(outs))
       \o (IF Head(outs) = "true" THEN <<Head(docs)>> ELSE <<>>)

\* Array.prototype.filter: the elements of docs whose callback outcome in
\* outs is true, in the order of docs
RECURSIVE Filter(_, _)
Filter(docs, outs) ==
  IF docs = <<>> THEN <<>>
  ELSE (IF Head(outs) = "true" THEN <<Head(docs)>> ELSE <<>>)
       \o Filter(Tail(docs), Tail(outs))

\* match without the empty-query case: an empty query selects nothing
QBMatch_EmptySelectsNone(h, docs, query) ==
  IF query.nul \/ Len(query.es) = 0 THEN Returns(<<>>)
  ELSE LET outs == [i \in 1..Len(docs) |-> MatchesQuery(h, docs[i], query)]
       IN IF \E i \in 1..Len(docs) : outs[i] = "throw" THEN Throws
          ELSE Returns(Filter(docs, outs))

\* new QueryBuilder(docs).match(query): the documents the builder then
\* holds.  The callback runs on each document in turn; a throw leaves filter.
QBMatch(h, docs, query) ==
  IF query.nul \/ Len(query.es) = 0 THEN Returns(docs)
  ELSE LET outs == [i \in 1..Len(docs) |-> MatchesQuery(h, docs[i], query)]
       IN IF \E i \in 1..Len(docs) : outs[i] = "throw" THEN Throws
          ELSE Returns(Filter(docs, outs))

\* new QueryBuilder(docs).match(query).execute()
QBExecute(h, docs, query) == QBMatch(h, docs, query)

(***************************************************************************)
(* The heap.  A cell is free, an array (its elements e) or an object (its  *)
(* properties p).  The first cells hold the arrays and the nested object   *)
(* that documents and queries of the model refer to.                       *)
(***************************************************************************)
NoProps == [k \in {} |-> Undef]
FreeCell == [k |-> "free", p |-> NoProps, e |-> <<>>]
ArrCell(es) == [k |-> "array", p |-> NoProps, e |-> es]
ObjCell(ps) == [k |-> "object", p |-> ps, e |-> <<>>]

StaticCells ==
  << ArrCell(<<Num(1)>>),          \* A1 = [1]
     ArrCell(<<Num(1)>>),          \* A2 = [1], another array with the same elements
     ObjCell([x |-> Num(1)]),      \* O1 = {x: 1}
     ArrCell(<<NaN, Str(S_a)>>),   \* A3 = [NaN, "a"]
     ArrCell(<<>>),                \* A4 = []
     ObjCell([k \in {"$gte"} |-> Num(1)]) >>   \* O2 = {$gte: 1}
NStatic == Len(StaticCells)
A1 == Ref(1)
A2 == Ref(2)
O1 == Ref(3)
A3 == Ref(4)
A4 == Ref(5)
O2 == Ref(6)

Max(a, b) == IF a >= b THEN a ELSE b
Range(f) == { f[i] : i \in DOMAIN f }
Refs == 1..(NStatic + Max(MaxLen, 2 * MaxDocs + 1))

\* the heap that holds the documents of list after the static cells
HeapWith(list) ==
  [r \in Refs |->
     IF r <= NStatic THEN StaticCells[r]
     ELSE IF r - NStatic <= Len(list) THEN ObjCell(list[r - NStatic])
     ELSE FreeCell]

(***************************************************************************)
(* Inputs of the matcher.                                                  *)
(***************************************************************************)
\* values a document field takes
FieldValues ==
  { Num(0), Num(1), Num(2), NaN, Str(S_empty), Str(S_1), Str(S_10), Str(S_2),
    Str(S_a), Null, True, False, A1, O1 }

\* operands of a query
Operands == FieldValues \cup { Undef, Str(S_caret_a), Str(S_paren), A2, A3, A4 }

\* operands of the model's $regex: the patterns the model's RegExp covers
Patterns == Operands \ { O1 }

KnownOps == { "$eq", "$ne", "$gt", "$gte", "$lt", "$lte", "$in", "$regex" }
UnknownOps == { "$bogus", "$exists" }
AllOps == KnownOps \cup UnknownOps

\* documents that vary the one field a over every value, and lack it
SingleDocs == { [a |-> v] : v \in FieldValues } \cup { [b |-> Num(1)] }

\* documents the longer lists are made of
CoreDocs ==
  { [a |-> Num(1), b |-> Num(1)], [a |-> Num(2), b |-> Num(1)],
    [a |-> Str(S_a), b |-> Num(2)], [b |-> Num(1)] }

DocLists ==
  { <<d>> : d \in SingleDocs }
  \cup UNION { [1..n -> CoreDocs] : n \in 0..MaxLen }

OpOk(op, v) == op # "$regex" \/ v \in Patterns

\* {a: v}
LitQueries == { Query(<<QLit("a", v)>>) : v \in Operands }

\* {a: {op: v}}
OneOpQueries ==
  { Query(<<QOps("a", <<Op(op, v)>>)>>) :
      <<op, v>> \in { x \in AllOps \X Operands : OpOk(x[1], x[2]) } }

\* {a: {op1: v1, op2: v2}}
PairOps == { "$gte", "$lte", "$ne", "$regex", "$bogus" }
PairVals == { Num(1), Num(2), Str(S_a), Str(S_paren) }
TwoOpQueries ==
  { Query(<<QOps("a", <<Op(x[1], x[2]), Op(x[3], x[4])>>)>>) :
      x \in { y \in PairOps \X PairVals \X PairOps \X PairVals : y[1] # y[3] } }

\* {a: X, b: Y} and {b: Y, a: X}
FieldConds(f) ==
  { QLit(f, Num(1)), QLit(f, Str(S_a)), QLit(f, Undef),
    QOps(f, <<Op("$gte", Num(1))>>), QOps(f, <<Op("$ne", Num(1))>>),
    QOps(f, <<Op("$regex", Str(S_paren))>>), QOps(f, <<Op("$bogus", Num(1))>>),
    QOps(f, <<>>) }
TwoFieldQueries ==
  { Query(<<x, y>>) : <<x, y>> \in FieldConds("a") \X FieldConds("b") }
  \cup { Query(<<y, x>>) : <<x, y>> \in FieldConds("a") \X FieldConds("b") }

\* queries on a key no document has of its own and every document inherits
InheritedQueries ==
  { Query(<<QLit("toString", Undef)>>),
    Query(<<QLit("toString", Null)>>),
    Query(<<QOps("toString", <<Op("$eq", Num(1))>>)>>),
    Query(<<QOps("toString", <<Op("$ne", Null)>>)>>),
    Query(<<QOps("toString", <<Op("$in", A3)>>)>>),
    Query(<<QOps("toString", <<Op("$regex", Str(S_a))>>)>>),
    Query(<<QOps("constructor", <<Op("$gt", Str(S_a))>>)>>) }

Queries ==
  { NullQuery, Query(<<>>) } \cup LitQueries \cup OneOpQueries
  \cup TwoOpQueries \cup TwoFieldQueries \cup InheritedQueries

(***************************************************************************)
(* The database and the calls in flight, before anything has used them:    *)
(* new MockDatabase() has no collection, no MockCollection exists, and no  *)
(* updateOne has been called.                                              *)
(***************************************************************************)
S_users == <<117, 115, 101, 114, 115>>
S_posts == <<112, 111, 115, 116, 115>>
Names == { S_users, S_posts }
Instances == 1..MaxInst
Calls == 1..2
IdleCall == [pc |-> "idle"]
NoDb ==
  /\ collections = [n \in Names |-> 0]
  /\ store = [i \in Instances |-> <<>>]
  /\ calls = [c \in Calls |-> IdleCall]
dbvars == <<collections, store, calls>>

(***************************************************************************)
(* The matcher alone: a caller holds an array of documents and runs one    *)
(* query over it with new QueryBuilder(docs).match(query).execute().       *)
(***************************************************************************)
NoOp == [name |-> "new", query |-> NullQuery, ok |-> TRUE]

MatchInit ==
  \E list \in DocLists :
    /\ heap = HeapWith(list)
    /\ documents = [i \in 1..Len(list) |-> NStatic + i]
    /\ callerDoc = 0
    /\ results = <<>>
    /\ idCount = 0
    /\ last = NoOp
    /\ NoDb

MatchExecute(q) ==
  /\ last.name = "new"
  /\ LET r == QBExecute(heap, documents, q)
     IN /\ results' = r.docs
        /\ last' = [name |-> "match", query |-> q, ok |-> r.ok]
  /\ UNCHANGED <<heap, documents, callerDoc, idCount>>
  /\ UNCHANGED dbvars

MatchNext == \E q \in Queries : MatchExecute(q)

MatchSpec == MatchInit /\ [][MatchNext]_vars

(***************************************************************************)
(* MockCollection.  The collection owns this.documents; the caller owns    *)
(* the document object it last passed to insertOne (callerDoc) and the     *)
(* array a find or findOne last gave it (results).  Document objects are   *)
(* cells of the heap after the static ones; cells nobody refers to any     *)
(* more are collected, and the addresses of the live ones are then         *)
(* renumbered in the order documents, callerDoc, results, which changes    *)
(* nothing a program can observe.                                          *)
(***************************************************************************)
Fresh(h) == CHOOSE r \in Refs : h[r].k = "free" /\ \A r2 \in Refs : h[r2].k = "free" => r <= r2

\* [h, refs]: h with a new object cell for each property map of cells
RECURSIVE AllocAll(_, _)
AllocAll(h, cells) ==
  IF cells = <<>> THEN [h |-> h, refs |-> <<>>]
  ELSE LET r == Fresh(h)
           rest == AllocAll([h EXCEPT ![r] = ObjCell(Head(cells))], Tail(cells))
       IN [h |-> rest.h, refs |-> <<r>> \o rest.refs]

\* h with the document cells outside keep freed
Collect(h, keep) ==
  [r \in Refs |-> IF r <= NStatic \/ r \in keep THEN h[r] ELSE FreeCell]

RECURSIVE Dedup(_)
Dedup(seq) ==
  IF seq = <<>> THEN <<>>
  ELSE LET front == Dedup(SubSeq(seq, 1, Len(seq) - 1))
           x == seq[Len(seq)]
       IN IF x \in Range(front) THEN front ELSE Append(front, x)

IndexOf(seq, x) == CHOOSE i \in 1..Len(seq) : seq[i] = x

\* the state [heap, documents, callerDoc, results] with garbage collected
\* and the live document cells renumbered
Normal(h, docs, caller, res) ==
  LET live == Dedup(docs \o (IF caller = 0 THEN <<>> ELSE <<caller>>) \o res)
      addr(r) == NStatic + IndexOf(live, r)
  IN [ heap |-> [a \in Refs |->
                   IF a <= NStatic THEN h[a]
                   ELSE IF a - NStatic <= Len(live) THEN h[live[a - NStatic]]
                   ELSE FreeCell],
       documents |-> [i \in 1..Len(docs) |-> addr(docs[i])],
       callerDoc |-> IF caller = 0 THEN 0 ELSE addr(caller),
       results |-> [i \in 1..Len(res) |-> addr(res[i])] ]

Become(st) ==
  /\ heap' = st.heap
  /\ documents' = st.documents
  /\ callerDoc' = st.callerDoc
  /\ results' = st.results

\* the identifiers _generateId returns: strings no caller writes, each new
S_g == <<103>>
GeneratedId(k) == Str(S_g \o NatToStr(k))

\* { ...document }: a new object with the own properties of the cell, which
\* for an array are its indices
Spread(cell) ==
  IF cell.e = <<>> THEN cell.p
  ELSE [k \in DOMAIN cell.p \cup { IndexKeys[i] : i \in 1..Len(cell.e) } |->
          IF k \in DOMAIN cell.p THEN cell.p[k]
          ELSE cell.e[CHOOSE i \in 1..Len(cell.e) : IndexKeys[i] = k]]

\* documents the caller inserts
S_x == <<120>>
InsertDocs ==
  { [a |-> A1],
    [a |-> Num(2), b |-> O1],
    [_id |-> Str(S_x), a |-> Num(1)] }

\* queries the caller runs on the collection
FindQueries ==
  { Query(<<>>),
    Query(<<QLit("a", Num(1))>>),
    Query(<<QOps("a", <<Op("$gte", Num(1))>>)>>),
    Query(<<QLit("a", A1)>>),
    Query(<<QLit("toString", Undef)>>) }

\* queries the caller runs with findOne
FindOneQueries ==
  { Query(<<QLit("a", Num(1))>>),
    Query(<<QOps("a", <<Op("$gte", Num(1))>>)>>) }

Init ==
  /\ heap = HeapWith(<<>>)
  /\ documents = <<>>
  /\ callerDoc = 0
  /\ results = <<>>
  /\ idCount = 0
  /\ last = NoOp
  /\ NoDb

\* The steps of an operation are bound one after the other (\E over a
\* singleton), each to the value the step before produced.

\* the earlier callerDoc is dropped, the caller builds the object dv and
\* passes it: insertOne copies it, gives the copy an _id if it has none (or a
\* falsy one) and pushes the copy
WithId(copy, id) ==
  [k \in DOMAIN copy \cup {"_id"} |-> IF k = "_id" THEN id ELSE copy[k]]

\* what insertOne returns
Inserted(id) == [acknowledged |-> TRUE, insertedId |-> id]

InsertOne(dv) ==
  /\ Len(documents) < MaxDocs
  /\ idCount < MaxIds
  /\ \E h0 \in { Collect(heap, Range(documents) \cup Range(results)) } :
     \E c \in { AllocAll(h0, <<dv>>) } :
     \E copy \in { Spread(c.h[c.refs[1]]) } :
     \E generate \in { ~ Truthy(GetField(ObjCell(copy), "_id")) } :
     \E docToInsert \in { IF generate THEN WithId(copy, GeneratedId(idCount + 1)) ELSE copy } :
     \E s \in { AllocAll(c.h, <<docToInsert>>) } :
     \E st \in { Normal(s.h, Append(documents, s.refs[1]), c.refs[1], results) } :
       /\ Become(st)
       /\ idCount' = IF generate THEN idCount + 1 ELSE idCount
       /\ last' = [name |-> "insertOne", query |-> NullQuery, ok |-> TRUE,
                   doc |-> dv, ret |-> Inserted(docToInsert["_id"])]
  /\ UNCHANGED dbvars

\* find(query): the matching documents, each copied
FindCopies(h, docs, query) ==
  LET r == QBExecute(h, docs, query)
  IN [ok |-> r.ok, cells |-> [i \in 1..Len(r.docs) |-> Spread(h[r.docs[i]])]]

\* find whose QueryBuilder narrows the collection's own array
Find_Narrowing(query) ==
  \E h0 \in { Collect(heap, Range(documents) \cup {callerDoc}) } :
  \E r \in { QBExecute(h0, documents, query) } :
  \E f \in { FindCopies(h0, documents, query) } :
  \E c \in { AllocAll(h0, f.cells) } :
  \E st \in { Normal(c.h, r.docs, callerDoc, c.refs) } :
    /\ IF f.ok THEN Become(st) ELSE UNCHANGED <<heap, documents, callerDoc, results>>
    /\ last' = [name |-> "find", query |-> query, ok |-> f.ok]
    /\ UNCHANGED idCount
    /\ UNCHANGED dbvars

Find(query) ==
  \E h0 \in { Collect(heap, Range(documents) \cup {callerDoc}) } :
  \E f \in { FindCopies(h0, documents, query) } :
  \E c \in { AllocAll(h0, f.cells) } :
  \E st \in { Normal(c.h, documents, callerDoc, c.refs) } :
    /\ IF f.ok THEN Become(st) ELSE UNCHANGED <<heap, documents, callerDoc, results>>
    /\ last' = [name |-> "find", query |-> query, ok |-> f.ok]
    /\ UNCHANGED idCount
    /\ UNCHANGED dbvars

(***************************************************************************)
(* Calls in flight.  An async method runs up to its first await when it is *)
(* called and goes on in a later job of the event loop; other calls run in *)
(* between.  Jobs run first come, first served, so of two calls waiting at *)
(* the same await the earlier one goes on first.  calls holds the calls in *)
(* flight, and the settled ones whose promise the caller keeps.            *)
(***************************************************************************)
InFlight(c) == calls[c].pc \notin { "idle", "done" }
Quiet == \A d \in Calls : ~ InFlight(d)
\* the caller's next call takes the first place not in use
FreeCall(c) == calls[c].pc = "idle" /\ \A d \in 1..(c - 1) : calls[d].pc # "idle"
\* the place in the queue of a call made now
Behind == 1 + Cardinality({ d \in Calls : InFlight(d) })
\* c is the call that has waited longest at the await pc
NextAt(c, pc) ==
  /\ calls[c].pc = pc
  /\ \A d \in Calls : calls[d].pc = pc => calls[c].seq <= calls[d].seq
\* a settled call: kept as it ended, or forgotten
Kept(rec) == IF rec.kept THEN [rec EXCEPT !.pc = "done", !.seq = 0] ELSE IdleCall
\* calls once c has settled as rec; the calls behind it move up
Settled(c, rec) ==
  [d \in Calls |->
     IF d = c THEN Kept(rec)
     ELSE IF InFlight(d) /\ calls[d].seq > calls[c].seq
     THEN [calls[d] EXCEPT !.seq = @ - 1]
     ELSE calls[d]]

\* the call findOne(query) up to "await this.find(query)": find has run the
\* matcher and copied what it found, and findOne will return the first copy
CallFindOne(c, query) ==
  /\ FreeCall(c)
  /\ \E f \in { FindCopies(heap, documents, query) } :
       calls' = [calls EXCEPT ![c] =
                   [pc |-> "find", seq |-> Behind, kept |-> FALSE,
                    query |-> query, ok |-> f.ok,
                    cells |-> IF Len(f.cells) > 0 THEN <<f.cells[1]>> ELSE <<>>]]
  /\ last' = [name |-> "findOne:call", query |-> query, ok |-> TRUE]
  /\ UNCHANGED <<heap, documents, callerDoc, results, idCount, collections, store>>

\* findOne from "results = ..." to its return: the caller has the first
\* copy, or null (no result)
ReturnFindOne(c) ==
  /\ NextAt(c, "find")
  /\ \E h0 \in { Collect(heap, Range(documents) \cup {callerDoc}) } :
     \E a \in { AllocAll(h0, calls[c].cells) } :
     \E st \in { Normal(a.h, documents, callerDoc, a.refs) } :
       IF calls[c].ok THEN Become(st)
       ELSE UNCHANGED <<heap, documents, callerDoc, results>>
  /\ last' = [name |-> "findOne", query |-> calls[c].query, ok |-> calls[c].ok]
  /\ calls' = Settled(c, calls[c])
  /\ UNCHANGED <<idCount, collections, store>>

(***************************************************************************)
(* What the caller does with the objects it holds: the document it         *)
(* inserted and the documents a find returned.  It assigns a field         *)
(* (doc.a = "b"), pushes onto an array a field holds (doc.a.push(2)) or    *)
(* assigns inside a nested object (doc.b.x = 2).                           *)
(***************************************************************************)
CallerRefs == (IF callerDoc = 0 THEN {} ELSE {callerDoc}) \cup Range(results)
Mutated == [name |-> "mutate", query |-> NullQuery, ok |-> TRUE]

SetProp(ps, key, v) == [k \in DOMAIN ps \cup {key} |-> IF k = key THEN v ELSE ps[k]]

CallerAssign(d) ==
  /\ d \in CallerRefs
  /\ heap[d].p # SetProp(heap[d].p, "a", Str(S_b))
  /\ heap' = [heap EXCEPT ![d].p = SetProp(@, "a", Str(S_b))]
  /\ last' = Mutated
  /\ UNCHANGED <<documents, callerDoc, results, idCount>>
  /\ UNCHANGED dbvars

CallerPush(d, f) ==
  /\ d \in CallerRefs
  /\ f \in DOMAIN heap[d].p
  /\ IsArray(heap, heap[d].p[f])
  /\ Len(heap[heap[d].p[f].n].e) < MaxArr
  /\ heap' = [heap EXCEPT ![heap[d].p[f].n].e = Append(@, Num(2))]
  /\ last' = Mutated
  /\ UNCHANGED <<documents, callerDoc, results, idCount>>
  /\ UNCHANGED dbvars

CallerAssignNested(d, f) ==
  /\ d \in CallerRefs
  /\ f \in DOMAIN heap[d].p
  /\ heap[d].p[f].t = "ref" /\ heap[heap[d].p[f].n].k = "object"
  /\ heap[heap[d].p[f].n].p # SetProp(heap[heap[d].p[f].n].p, "x", Num(2))
  /\ heap' = [heap EXCEPT ![heap[d].p[f].n].p = SetProp(@, "x", Num(2))]
  /\ last' = Mutated
  /\ UNCHANGED <<documents, callerDoc, results, idCount>>
  /\ UNCHANGED dbvars

Fields == { "_id", "a", "b" }

Next ==
  \/ \E dv \in InsertDocs : InsertOne(dv)
  \/ \E q \in FindQueries : Find(q)
  \/ \E c \in Calls, q \in FindOneQueries : Quiet /\ CallFindOne(c, q)
  \/ \E c \in Calls : ReturnFindOne(c)
  \/ \E d \in Refs : CallerAssign(d)
  \/ \E d \in Refs, f \in Fields : CallerPush(d, f)
  \/ \E d \in Refs, f \in Fields : CallerAssignNested(d, f)

Spec == Init /\ [][Next]_vars

(***************************************************************************)
(* deleteOne, clear and the rejecting side of insertOne, on the one        *)
(* collection of documents.  The caller keeps no document across these     *)
(* calls.                                                                  *)
(***************************************************************************)
\* the stored documents, first to last, each as its fields
Stored(h, docs) == [i \in 1..Len(docs) |-> h[docs[i]].p]

\* this.documents.findIndex(doc => doc._id === id): the first position whose
\* _id is strictly equal to id, 0 where findIndex gives -1
FindIndexById(h, docs, id) ==
  IF \E i \in 1..Len(docs) : StrictEquals(GetField(h[docs[i]], "_id"), id)
  THEN CHOOSE i \in 1..Len(docs) :
         /\ StrictEquals(GetField(h[docs[i]], "_id"), id)
         /\ \A j \in 1..(i - 1) : ~ StrictEquals(GetField(h[docs[j]], "_id"), id)
  ELSE 0

\* this.documents.splice(i, 1)
Splice(docs, i) == [j \in 1..(Len(docs) - 1) |-> IF j < i THEN docs[j] ELSE docs[j + 1]]

\* what deleteOne returns
Deleted(n) == [acknowledged |-> TRUE, deletedCount |-> n]

\* the one element of a set of one element: a value computed once and named
The(S) == CHOOSE x \in S : TRUE

\* deleteOne(query) on the documents docs: [ok, docs, ret]; ok is FALSE when
\* the matcher throws
DeleteOneOn(h, docs, query) ==
  The({ IF ~ matchingDocs.ok THEN [ok |-> FALSE, docs |-> docs, ret |-> Deleted(0)]
        ELSE IF Len(matchingDocs.docs) = 0
             THEN [ok |-> TRUE, docs |-> docs, ret |-> Deleted(0)]
             ELSE The({ IF indexToDelete # 0
                        THEN [ok |-> TRUE, docs |-> Splice(docs, indexToDelete),
                              ret |-> Deleted(1)]
                        ELSE [ok |-> TRUE, docs |-> docs, ret |-> Deleted(0)] :
                        indexToDelete \in
                          { FindIndexById(h, docs, GetField(h[matchingDocs.docs[1]], "_id")) } }) :
        matchingDocs \in { QBExecute(h, docs, query) } })

DeleteOne(query) ==
  \E d \in { DeleteOneOn(heap, documents, query) } :
  \E st \in { Normal(heap, d.docs, 0, <<>>) } :
    /\ Become(st)
    /\ last' = [name |-> "deleteOne", query |-> query, ok |-> d.ok, ret |-> d.ret]
    /\ UNCHANGED idCount
    /\ UNCHANGED dbvars

\* clear(): this.documents = []
Clear ==
  /\ documents # <<>>
  /\ \E st \in { Normal(heap, <<>>, 0, <<>>) } : Become(st)
  /\ last' = [name |-> "clear", query |-> NullQuery, ok |-> TRUE]
  /\ UNCHANGED idCount
  /\ UNCHANGED dbvars

\* the test of insertOne and updateOne without its "!document ||": null,
\* whose typeof is "object", passes
NotADocument_TypeOnly(h, v) == TypeOf(h, v) # "object"

\* !document || typeof document !== 'object': insertOne(v) then throws
NotADocument(h, v) == ~ Truthy(v) \/ TypeOf(h, v) # "object"

\* insertOne(v) for a v that fails that test: the call throws
InsertOneRejected(v) ==
  /\ NotADocument(heap, v)
  /\ last' = [name |-> "insertOne", query |-> NullQuery, ok |-> FALSE, v |-> v]
  /\ UNCHANGED <<heap, documents, callerDoc, results, idCount>>
  /\ UNCHANGED dbvars

S_y == <<121>>
\* documents the caller inserts: with an _id, two with the same _id, without
\* one, and with an _id that is 0, "" or null
CrudDocs ==
  { [_id |-> Str(S_x), a |-> Num(1)],
    [_id |-> Str(S_x), a |-> Num(2)],
    [_id |-> Str(S_y), a |-> Num(1)],
    [a |-> Num(1)],
    [a |-> Num(2), b |-> Num(1)],
    [_id |-> Num(0), a |-> Num(2)],
    [_id |-> Str(S_empty), a |-> Num(1)],
    [_id |-> Null, a |-> Num(1)] }

\* values that are passed where a document or an update is expected
NotObjects == { Null, Undef, Str(S_a), Num(0), Num(1), True, False, NaN }

DeleteQueries ==
  { Query(<<>>),
    Query(<<QLit("a", Num(1))>>),
    Query(<<QLit("a", Num(2))>>),
    Query(<<QLit("b", Num(1))>>),
    Query(<<QLit("_id", Str(S_x))>>),
    Query(<<QOps("a", <<Op("$gte", Num(2))>>)>>),
    Query(<<QLit("a", Num(1)), QOps("_id", <<Op("$ne", Str(S_x))>>)>>),
    Query(<<QOps("a", <<Op("$bogus", Num(1))>>)>>) }

CrudNext ==
  \/ \E dv \in CrudDocs : InsertOne(dv)
  \/ \E v \in NotObjects : InsertOneRejected(v)
  \/ \E q \in DeleteQueries : DeleteOne(q)
  \/ Clear

CrudSpec == Init /\ [][CrudNext]_vars

(***************************************************************************)
(* updateOne.  An update is either an object written in place, with or     *)
(* without $set (an object, its fields set) and $unset (an object, of      *)
(* which only the keys unset count), or some other value v.  A filter      *)
(* given to updateOne holds its values in place (lit entries); an operator *)
(* object in it is an object of the heap.                                  *)
(***************************************************************************)
Upd(hasSet, set, hasUnset, unset) ==
  [lit |-> TRUE, v |-> Undef, hasSet |-> hasSet, set |-> set,
   hasUnset |-> hasUnset, unset |-> unset]
UpdValue(v) ==
  [lit |-> FALSE, v |-> v, hasSet |-> FALSE, set |-> NoProps,
   hasUnset |-> FALSE, unset |-> {}]

\* !update || typeof update !== 'object'
UpdateRejected(h, u) == ~ u.lit /\ NotADocument(h, u.v)

\* await this.findOne(filter): whether the matcher returned, whether a
\* document matched, and the _id of the copy of the first that did
FindOneOn(h, docs, filter) ==
  The({ [ok |-> r.ok,
         found |-> r.ok /\ Len(r.docs) > 0,
         id |-> IF r.ok /\ Len(r.docs) > 0 THEN GetField(h[r.docs[1]], "_id") ELSE Undef] :
        r \in { QBExecute(h, docs, filter) } })

\* { ...filter }
FilterProps(filter) ==
  [k \in { filter.es[i].key : i \in 1..Len(filter.es) } |->
     filter.es[CHOOSE i \in 1..Len(filter.es) : filter.es[i].key = k].v]

\* Object.assign(target, source)
Assign(target, source) ==
  [k \in DOMAIN target \cup DOMAIN source |->
     IF k \in DOMAIN source THEN source[k] ELSE target[k]]

\* an upsert document made of the $set payload alone
NewDoc_SetOnly(filter, u) == IF u.hasSet THEN u.set ELSE NoProps

\* the upsert document: { ...filter } with update.$set assigned over it
NewDoc(filter, u) ==
  IF u.hasSet THEN Assign(FilterProps(filter), u.set) ELSE FilterProps(filter)

\* what updateOne returns
Updated(matched, modified) ==
  [acknowledged |-> TRUE, matchedCount |-> matched, modifiedCount |-> modified]
Upserted(id) ==
  [acknowledged |-> TRUE, matchedCount |-> 0, modifiedCount |-> 0,
   upsertedCount |-> 1, upsertedId |-> id]

\* the outcome of updateOne: [ok, h, docs, n, ret]; n is the number of
\* generated identifiers, ok is FALSE when the call rejects
Outcome(ok, h, docs, n, ret) == [ok |-> ok, h |-> h, docs |-> docs, n |-> n, ret |-> ret]

\* The argument of insertOne: an object written in place, its fields
\* props, or some other value v (an object of the heap among them).
Doc(props) == [lit |-> TRUE, v |-> Undef, props |-> props]
DocValue(v) == [lit |-> FALSE, v |-> v, props |-> NoProps]
\* the own properties { ...document } copies
DocProps(h, arg) ==
  IF arg.lit THEN arg.props
  ELSE IF arg.v.t = "ref" THEN Spread(h[arg.v.n])
  ELSE NoProps

\* insertOne(document) on the documents docs from call to return: it rejects
\* what is no object, copies the document, gives the copy an _id if it has
\* none (or a falsy one) and pushes it
InsertOneOn(h, docs, n, arg) ==
  IF ~ arg.lit /\ NotADocument(h, arg.v)
  THEN Outcome(FALSE, h, docs, n, Inserted(Undef))
  ELSE
  The({ The({ The({ [ok |-> TRUE, h |-> a.h, docs |-> Append(docs, a.refs[1]),
                     n |-> IF docToInsert = copy THEN n ELSE n + 1,
                     ret |-> Inserted(docToInsert["_id"])] :
                    a \in { AllocAll(h, <<docToInsert>>) } }) :
              docToInsert \in
                { IF ~ Truthy(GetField(ObjCell(copy), "_id"))
                  THEN WithId(copy, GeneratedId(n + 1)) ELSE copy } }) :
        copy \in { DocProps(h, arg) } })

\* the upsert branch: await this.insertOne(newDoc), and the return value
UpsertOn(h, docs, n, filter, u) ==
  The({ [r EXCEPT !.ret = Upserted(r.ret.insertedId)] :
        r \in { InsertOneOn(h, docs, n, Doc(NewDoc(filter, u))) } })

\* the fields of a document after $set and $unset
SetFields(ps, u) == IF u.hasSet THEN Assign(ps, u.set) ELSE ps
UnsetFields(ps, u) ==
  IF u.hasUnset THEN [k \in DOMAIN ps \ u.unset |-> ps[k]] ELSE ps
\* modified: $set was there, or some key of $unset is "in" the document
Modified(ps, u) ==
  u.hasSet \/ (u.hasUnset /\ \E k \in u.unset : HasProperty(SetFields(ps, u), k))

\* the update branch: the stored document is looked up by the _id of the
\* copy findOne returned, and changed in place
ApplyOn(h, docs, n, id, u) ==
  The({ IF docIndex = 0 THEN Outcome(TRUE, h, docs, n, Updated(0, 0))
        ELSE Outcome(TRUE,
                     [h EXCEPT ![docs[docIndex]].p = UnsetFields(SetFields(@, u), u)],
                     docs, n,
                     Updated(1, IF Modified(h[docs[docIndex]].p, u) THEN 1 ELSE 0)) :
        docIndex \in { FindIndexById(h, docs, id) } })

\* updateOne after "await this.findOne(filter)" gave existingDoc
AfterFindOne(h, docs, n, filter, u, upsert, existingDoc) ==
  IF ~ existingDoc.ok THEN Outcome(FALSE, h, docs, n, Updated(0, 0))
  ELSE IF ~ existingDoc.found /\ upsert THEN UpsertOn(h, docs, n, filter, u)
  ELSE IF ~ existingDoc.found THEN Outcome(TRUE, h, docs, n, Updated(0, 0))
  ELSE ApplyOn(h, docs, n, existingDoc.id, u)

(***************************************************************************)
(* updateOne as the event loop runs it.  The call itself runs up to the    *)
(* first await: it tests the update and, through findOne and find, runs    *)
(* the matcher over this.documents as they are at the call.  The rest runs *)
(* in later jobs of the loop: one that takes existingDoc and inserts or    *)
(* changes a document, and, after an upsert, one that returns once         *)
(* "await this.insertOne(newDoc)" is over.  Other calls run in between.    *)
(***************************************************************************)
\* the step updateOne has just made: the call c went on and changed the
\* documents, or was rejected for its update when it was made
UpdateRejectedAt(c, rec) ==
  [name |-> "updateOne:call", call |-> c, ok |-> FALSE, ret |-> rec.ret,
   query |-> rec.filter, update |-> rec.u, upsert |-> rec.upsert]
UpdateResumed(c, rec) ==
  [name |-> "updateOne", call |-> c, ok |-> rec.ok, ret |-> rec.ret]

\* the call updateOne(filter, u, { upsert }) up to "await this.findOne(filter)";
\* kept says whether the caller keeps the promise once it has settled
CallUpdateOne(c, filter, u, upsert, kept) ==
  /\ FreeCall(c)
  /\ \E rec \in { [pc |-> "findOne",
                   seq |-> Behind, overlap |-> ~ Quiet,
                   kept |-> kept,
                   filter |-> filter, u |-> u, upsert |-> upsert,
                   existingDoc |-> FindOneOn(heap, documents, filter),
                   ok |-> ~ UpdateRejected(heap, u),
                   ret |-> Updated(0, 0)] } :
       IF UpdateRejected(heap, u)
       THEN /\ calls' = [calls EXCEPT ![c] = Kept(rec)]
            /\ last' = UpdateRejectedAt(c, rec)
       ELSE /\ calls' = [calls EXCEPT ![c] = rec]
            /\ last' = [name |-> "updateOne:call", call |-> c, ok |-> TRUE]
  /\ UNCHANGED <<heap, documents, callerDoc, results, idCount, collections, store>>

\* updateOne from "existingDoc = ..." to its next await or its return
ResumeUpdateOne(c) ==
  /\ NextAt(c, "findOne")
  /\ \E r \in { AfterFindOne(heap, documents, idCount, calls[c].filter,
                             calls[c].u, calls[c].upsert, calls[c].existingDoc) } :
     \E rec \in { [calls[c] EXCEPT !.ok = r.ok, !.ret = r.ret] } :
       /\ Len(r.docs) <= MaxDocs
       /\ r.n <= MaxIds
       /\ \E st \in { Normal(r.h, r.docs, 0, <<>>) } : Become(st)
       /\ idCount' = r.n
       /\ calls' = IF "upsertedCount" \in DOMAIN r.ret
                   THEN [calls EXCEPT ![c] = [rec EXCEPT !.pc = "insertOne"]]
                   ELSE Settled(c, rec)
       /\ last' = UpdateResumed(c, rec)
  /\ UNCHANGED <<collections, store>>

\* updateOne from "insertResult = ..." to its return
ReturnUpsert(c) ==
  /\ NextAt(c, "insertOne")
  /\ calls' = Settled(c, calls[c])
  /\ last' = [name |-> "updateOne:return", call |-> c, ok |-> TRUE,
              ret |-> calls[c].ret]
  /\ UNCHANGED <<heap, documents, callerDoc, results, idCount, collections, store>>

\* updateOne without upsert: documents of which two share an _id, filters
\* that match none, one or both, and updates of every shape
UpdateDocs ==
  { [_id |-> Str(S_x), a |-> Num(1)],
    [_id |-> Str(S_x), a |-> Num(2)],
    [a |-> Num(1)] }

UpdateFilters ==
  { Query(<<>>),
    Query(<<QLit("a", Num(1))>>),
    Query(<<QLit("a", Num(2))>>),
    Query(<<QLit("b", Num(1))>>),
    Query(<<QLit("a", O2)>>) }

Updates ==
  { Upd(TRUE, [b |-> Num(1)], FALSE, {}),
    Upd(FALSE, NoProps, TRUE, {"a"}),
    Upd(FALSE, NoProps, TRUE, {"toString"}),
    Upd(TRUE, [a |-> Num(2)], TRUE, {"b", "c"}),
    Upd(TRUE, NoProps, FALSE, {}),
    Upd(FALSE, NoProps, FALSE, {}),
    UpdValue(Null), UpdValue(A4) }

\* what the caller passes to an updateOne it makes while another is in flight
OverlapFilters == { Query(<<QLit("a", Num(1))>>) }
OverlapUpdates == { Upd(TRUE, [b |-> Num(1)], FALSE, {}) }

UpdateNext ==
  \/ \E dv \in UpdateDocs : InsertOne(dv)
  \/ \E c \in Calls, f \in UpdateFilters, u \in Updates :
       Quiet /\ CallUpdateOne(c, f, u, FALSE, FALSE)
  \/ \E c \in Calls, f \in OverlapFilters, u \in OverlapUpdates :
       ~ Quiet /\ CallUpdateOne(c, f, u, FALSE, FALSE)
  \/ \E c \in Calls : ResumeUpdateOne(c)

UpdateSpec == Init /\ [][UpdateNext]_vars

\* updateOne with upsert: filters whose values are a number, an _id, an _id
\* that is 0, an operator object, NaN and an array, and $set payloads that
\* add a field and that overwrite a field of the filter
UpsertDocs ==
  { [_id |-> Str(S_x), a |-> Num(1)],
    [a |-> Num(2)] }

UpsertFilters ==
  { Query(<<QLit("a", Num(1))>>),
    Query(<<QLit("_id", Str(S_y))>>),
    Query(<<QLit("_id", Num(0))>>),
    Query(<<QLit("a", NaN)>>),
    Query(<<QLit("a", O2)>>),
    Query(<<QLit("a", A1)>>) }

Upserts ==
  { Upd(TRUE, [b |-> Num(1)], FALSE, {}),
    Upd(TRUE, [a |-> Num(2)], FALSE, {}) }

UpsertNext ==
  \/ \E dv \in UpsertDocs : InsertOne(dv)
  \/ \E c \in Calls, f \in UpsertFilters, u \in Upserts :
       Quiet /\ CallUpdateOne(c, f, u, TRUE, FALSE)
  \/ \E c \in Calls, f \in OverlapFilters, u \in OverlapUpdates :
       ~ Quiet /\ CallUpdateOne(c, f, u, TRUE, FALSE)
  \/ \E c \in Calls : ResumeUpdateOne(c)
  \/ \E c \in Calls : ReturnUpsert(c)

UpsertSpec == Init /\ [][UpsertNext]_vars

(***************************************************************************)
(* MockDatabase.  this.collections maps a name to a MockCollection, here   *)
(* the number of the instance.  The caller reaches a collection through    *)
(* collection(name); an instance the database no longer holds is gone.     *)
(* The documents of an instance are kept as their fields, and an           *)
(* operation on them runs on a heap that holds them after the static       *)
(* cells.                                                                  *)
(***************************************************************************)
S_blank == <<32>>
S_constructor == <<99, 111, 110, 115, 116, 114, 117, 99, 116, 111, 114>>
\* keys every object inherits from Object.prototype, of which the model
\* uses one
Inherited == { S_constructor }
\* what collection(name) returns for an inherited key: no MockCollection
InheritedValue == 0 - 1

DocRefs(list) == [j \in 1..Len(list) |-> NStatic + j]

\* typeof name !== 'string' || name.trim() === ''
BadName(v) == TypeOf(heap, v) # "string" \/ Trim(v.s) = <<>>

\* this.collections[key] as a condition
Registered(key) ==
  key \in Inherited \/ (key \in Names /\ collections[key] # 0)

\* a call in flight holds the instance it was made on
Held(i) == \E c \in Calls : InFlight(c) /\ calls[c].inst = i
\* is there an instance nothing refers to
Unused(i) == ~ Held(i) /\ \A n \in Names : collections[n] # i
FreshInstance == CHOOSE i \in Instances : Unused(i)

\* collection(name) that makes a new MockCollection at every call
Collection_AlwaysNew(v) ==
  /\ BadName(v) \/ v.s \in Inherited \/ v.s \in Names
  /\ IF BadName(v)
     THEN /\ last' = [name |-> "collection", ok |-> FALSE, arg |-> v, ret |-> 0]
          /\ UNCHANGED <<collections, store>>
     ELSE IF v.s \in Inherited
     THEN /\ last' = [name |-> "collection", ok |-> TRUE, arg |-> v,
                      ret |-> InheritedValue]
          /\ UNCHANGED <<collections, store>>
     ELSE /\ \E i \in Instances : Unused(i)
          /\ collections' = [collections EXCEPT ![v.s] = FreshInstance]
          /\ store' = [store EXCEPT ![FreshInstance] = <<>>]
          /\ last' = [name |-> "collection", ok |-> TRUE, arg |-> v,
                      ret |-> FreshInstance]
  /\ UNCHANGED <<heap, documents, callerDoc, results, idCount, calls>>

\* collection(name)
Collection(v) ==
  /\ BadName(v) \/ v.s \in Inherited \/ v.s \in Names
  /\ IF BadName(v)
     THEN /\ last' = [name |-> "collection", ok |-> FALSE, arg |-> v, ret |-> 0]
          /\ UNCHANGED <<collections, store>>
     ELSE IF v.s \in Inherited
     THEN /\ last' = [name |-> "collection", ok |-> TRUE, arg |-> v,
                      ret |-> InheritedValue]
          /\ UNCHANGED <<collections, store>>
     ELSE IF ~ Registered(v.s)
     THEN /\ \E i \in Instances : Unused(i)
          /\ collections' = [collections EXCEPT ![v.s] = FreshInstance]
          /\ store' = [store EXCEPT ![FreshInstance] = <<>>]
          /\ last' = [name |-> "collection", ok |-> TRUE, arg |-> v,
                      ret |-> FreshInstance]
     ELSE /\ last' = [name |-> "collection", ok |-> TRUE, arg |-> v,
                      ret |-> collections[v.s]]
          /\ UNCHANGED <<collections, store>>
  /\ UNCHANGED <<heap, documents, callerDoc, results, idCount, calls>>

\* dropCollection(name): the instance goes with its key
DropCollection(key) ==
  /\ IF key \in Names /\ collections[key] # 0
     THEN /\ collections' = [collections EXCEPT ![key] = 0]
          /\ store' = IF Held(collections[key]) THEN store
                       ELSE [store EXCEPT ![collections[key]] = <<>>]
     ELSE UNCHANGED <<collections, store>>
  /\ last' = [name |-> "dropCollection", ok |-> TRUE, arg |-> Str(key),
              ret |-> Registered(key)]
  /\ UNCHANGED <<heap, documents, callerDoc, results, idCount, calls>>

\* clear() of the database: this.collections = {}
DbClear ==
  /\ \E n \in Names : collections[n] # 0
  /\ collections' = [n \in Names |-> 0]
  /\ store' = [i \in Instances |-> IF Held(i) THEN store[i] ELSE <<>>]
  /\ last' = [name |-> "dbClear", ok |-> TRUE]
  /\ UNCHANGED <<heap, documents, callerDoc, results, idCount, calls>>

\* clearAllData(): clear() of every collection
ClearAllData ==
  /\ \E n \in Names : collections[n] # 0 /\ store[collections[n]] # <<>>
  /\ store' = [i \in Instances |->
                 IF \E n \in Names : collections[n] = i THEN <<>> ELSE store[i]]
  /\ last' = [name |-> "clearAllData", ok |-> TRUE]
  /\ UNCHANGED <<heap, documents, callerDoc, results, idCount, calls, collections>>

\* db.collection(name).insertOne(arg) for a name the database holds
CollInsertOne(key, arg) ==
  /\ collections[key] # 0
  /\ \E r \in { InsertOneOn(HeapWith(store[collections[key]]),
                            DocRefs(store[collections[key]]), idCount, arg) } :
       /\ Len(r.docs) <= MaxDocs
       /\ r.n <= MaxIds
       /\ store' = [store EXCEPT ![collections[key]] = Stored(r.h, r.docs)]
       /\ idCount' = r.n
       /\ last' = [name |-> "insertOne", ok |-> r.ok, inst |-> collections[key],
                   arg |-> arg, ret |-> r.ret]
  /\ UNCHANGED <<heap, documents, callerDoc, results, calls, collections>>

\* the documents of the instances once the call c on the instance i has
\* settled with the documents list: an instance nothing refers to is gone
StoreSettled(c, i, list) ==
  IF (\A n \in Names : collections[n] # i)
     /\ (\A d \in Calls \ {c} : ~ (InFlight(d) /\ calls[d].inst = i))
  THEN [store EXCEPT ![i] = <<>>]
  ELSE [store EXCEPT ![i] = list]

\* db.collection(name).updateOne(filter, update, {upsert}) up to
\* "await this.findOne(filter)"
CollCallUpdateOne(c, key, filter, u, upsert) ==
  /\ collections[key] # 0
  /\ FreeCall(c)
  /\ \E rec \in { [pc |-> "findOne", seq |-> Behind, overlap |-> ~ Quiet,
                   kept |-> FALSE, inst |-> collections[key],
                   filter |-> filter, u |-> u, upsert |-> upsert,
                   existingDoc |-> FindOneOn(HeapWith(store[collections[key]]),
                                             DocRefs(store[collections[key]]), filter),
                   ok |-> TRUE, ret |-> Updated(0, 0)] } :
       IF UpdateRejected(heap, u)
       THEN /\ calls' = calls
            /\ last' = [name |-> "updateOne:call", call |-> c, ok |-> FALSE,
                        inst |-> rec.inst, update |-> u, upsert |-> upsert]
       ELSE /\ calls' = [calls EXCEPT ![c] = rec]
            /\ last' = [name |-> "updateOne:call", call |-> c, ok |-> TRUE,
                        inst |-> rec.inst, update |-> u, upsert |-> upsert]
  /\ UNCHANGED <<heap, documents, callerDoc, results, idCount, collections, store>>

\* updateOne on an instance from "existingDoc = ..." to its next await or
\* its return
CollResumeUpdateOne(c) ==
  /\ NextAt(c, "findOne")
  /\ \E r \in { AfterFindOne(HeapWith(store[calls[c].inst]),
                             DocRefs(store[calls[c].inst]), idCount,
                             calls[c].filter, calls[c].u, calls[c].upsert,
                             calls[c].existingDoc) } :
     \E rec \in { [calls[c] EXCEPT !.ok = r.ok, !.ret = r.ret] } :
       /\ Len(r.docs) <= MaxDocs
       /\ r.n <= MaxIds
       /\ idCount' = r.n
       /\ IF "upsertedCount" \in DOMAIN r.ret
          THEN /\ calls' = [calls EXCEPT ![c] = [rec EXCEPT !.pc = "insertOne"]]
               /\ store' = [store EXCEPT ![rec.inst] = Stored(r.h, r.docs)]
          ELSE /\ calls' = Settled(c, rec)
               /\ store' = StoreSettled(c, rec.inst, Stored(r.h, r.docs))
       /\ last' = [name |-> "updateOne", call |-> c, ok |-> rec.ok,
                   ret |-> rec.ret, inst |-> rec.inst]
  /\ UNCHANGED <<heap, documents, callerDoc, results, collections>>

\* updateOne on an instance from "insertResult = ..." to its return
CollReturnUpsert(c) ==
  /\ NextAt(c, "insertOne")
  /\ calls' = Settled(c, calls[c])
  /\ store' = StoreSettled(c, calls[c].inst, store[calls[c].inst])
  /\ last' = [name |-> "updateOne:return", call |-> c, ok |-> TRUE,
              ret |-> calls[c].ret, inst |-> calls[c].inst]
  /\ UNCHANGED <<heap, documents, callerDoc, results, idCount, collections>>

\* db.collection(name).deleteOne(query)
CollDeleteOne(key, query) ==
  /\ collections[key] # 0
  /\ \E r \in { DeleteOneOn(HeapWith(store[collections[key]]),
                            DocRefs(store[collections[key]]), query) } :
       /\ store' = [store EXCEPT ![collections[key]] =
                      Stored(HeapWith(store[collections[key]]), r.docs)]
       /\ last' = [name |-> "deleteOne", ok |-> r.ok, inst |-> collections[key],
                   query |-> query, ret |-> r.ret]
  /\ UNCHANGED <<heap, documents, callerDoc, results, idCount, calls, collections>>

\* db.collection(name).clear()
CollClear(key) ==
  /\ collections[key] # 0
  /\ store[collections[key]] # <<>>
  /\ store' = [store EXCEPT ![collections[key]] = <<>>]
  /\ last' = [name |-> "clear", ok |-> TRUE, inst |-> collections[key]]
  /\ UNCHANGED <<heap, documents, callerDoc, results, idCount, calls, collections>>

\* names given to collection(): two good ones, an inherited key, and the
\* empty, the blank and one that is no string
GoodNames == { Str(S_users), Str(S_posts), Str(S_constructor) }
BadNames == { Str(S_empty), Str(S_blank), Null }

\* what the collections of the database are given: documents, and values
\* that are no document; a filter; an update, and values that are no update
DbDocs == { Doc([_id |-> Str(S_x), a |-> Num(1)]) }
BadDocs == { DocValue(Null), DocValue(Str(S_a)), DocValue(Num(0)) }
\* an array is an object: insertOne takes it and stores its indices
ArrayDocs == { DocValue(A1) }
DbFilter == Query(<<QLit("a", Num(1))>>)
DbUpdate == Upd(TRUE, [b |-> Num(1)], FALSE, {})
BadUpdates == { UpdValue(Null), UpdValue(Str(S_a)), UpdValue(Num(1)) }

\* the database and its collections, given what they accept
DbNext ==
  \/ \E v \in GoodNames : Collection(v)
  \/ \E key \in Names \cup Inherited : DropCollection(key)
  \/ DbClear
  \/ ClearAllData
  \/ \E key \in Names, arg \in DbDocs : CollInsertOne(key, arg)
  \/ \E c \in Calls, key \in Names :
       Quiet /\ CollCallUpdateOne(c, key, DbFilter, DbUpdate, FALSE)
  \/ \E c \in Calls : CollResumeUpdateOne(c)
  \/ \E key \in Names : CollDeleteOne(key, DbFilter)
  \/ \E key \in Names : CollClear(key)

DbSpec == Init /\ [][DbNext]_vars

\* the database and its collections, given also what they reject
RejectNext ==
  \/ \E v \in GoodNames \cup BadNames : Collection(v)
  \/ \E arg \in DbDocs \cup BadDocs \cup ArrayDocs : CollInsertOne(S_users, arg)
  \/ \E c \in Calls : CollCallUpdateOne(c, S_users, DbFilter, DbUpdate, TRUE)
  \/ \E c \in Calls, u \in BadUpdates, upsert \in BOOLEAN :
       CollCallUpdateOne(c, S_users, DbFilter, u, upsert)
  \/ \E c \in Calls : CollResumeUpdateOne(c)
  \/ \E c \in Calls : CollReturnUpsert(c)

RejectSpec == Init /\ [][RejectNext]_vars

(***************************************************************************)
(* Properties of the matcher, checked under MatchSpec.                     *)
(***************************************************************************)
Matched == last.name = "match"
Returned == Matched /\ last.ok
\* the documents of list that are in other, in the order of list
RECURSIVE Common(_, _)
Common(list, other) ==
  IF list = <<>> THEN <<>>
  ELSE IF Head(list) \in Range(other)
       THEN <<Head(list)>> \o Common(Tail(list), other)
       ELSE Common(Tail(list), other)
\* does d have the field f
Has(d, f) == f \in DOMAIN heap[d].p
Concrete(v) == v.t \in {"string", "number", "nan", "boolean", "null"}
OneEntry == Matched /\ ~ last.query.nul /\ Len(last.query.es) = 1
TheEntry == last.query.es[1]
OneOp == OneEntry /\ ~ TheEntry.lit /\ Len(TheEntry.ops) = 1
TheOp == TheEntry.ops[1]

\* C1: a match that returns gives exactly the documents the per-document
\* predicate accepts, each once, in the order of the input: every returned
\* document is an input document that matches, every input document that
\* matches is returned, and two returned documents stand in the order they
\* have in the input.
C1_ExactSubsequence ==
  Returned =>
    /\ \A i \in 1..Len(results) :
         \E j \in 1..Len(documents) :
           /\ results[i] = documents[j]
           /\ MatchesQuery(heap, documents[j], last.query) = "true"
    /\ \A j \in 1..Len(documents) :
         MatchesQuery(heap, documents[j], last.query) = "true"
           => \E i \in 1..Len(results) : results[i] = documents[j]
    /\ \A i1, i2 \in 1..Len(results) :
         i1 < i2 =>
           \E j1, j2 \in 1..Len(documents) :
             j1 < j2 /\ results[i1] = documents[j1] /\ results[i2] = documents[j2]

\* C1 witness: of two documents the second alone matches and is returned.
C1_Witness ==
  /\ Returned
  /\ Len(documents) = MaxLen
  /\ results = <<documents[Len(documents)]>>
  /\ Len(last.query.es) = 1

\* C2: the empty query (and a query that is not given) returns every
\* document of the list in the original order.
C2_EmptyMatchesAll ==
  (Matched /\ (last.query.nul \/ last.query.es = <<>>)) =>
    (last.ok /\ results = documents)

\* C2 witness: the empty query ran over documents that do not share a field.
C2_Witness ==
  /\ Matched
  /\ ~ last.query.nul
  /\ last.query.es = <<>>
  /\ Len(results) = MaxLen
  /\ \E i, j \in 1..Len(documents) : DOMAIN heap[documents[i]].p # DOMAIN heap[documents[j]].p

\* C3: a query of two fields returns the documents both one-field queries
\* return, and one field with two operators the documents both one-operator
\* queries return, in the same order (whenever the parts themselves return).
C3_Conjunction ==
  /\ (Matched /\ ~ last.query.nul /\ Len(last.query.es) = 2) =>
       LET r1 == QBExecute(heap, documents, Query(<<last.query.es[1]>>))
           r2 == QBExecute(heap, documents, Query(<<last.query.es[2]>>))
       IN (r1.ok /\ r2.ok) => (last.ok /\ results = Common(r1.docs, r2.docs))
  /\ (OneEntry /\ ~ TheEntry.lit /\ Len(TheEntry.ops) = 2) =>
       LET r1 == QBExecute(heap, documents, Query(<<QOps(TheEntry.key, <<TheEntry.ops[1]>>)>>))
           r2 == QBExecute(heap, documents, Query(<<QOps(TheEntry.key, <<TheEntry.ops[2]>>)>>))
       IN (r1.ok /\ r2.ok) => (last.ok /\ results = Common(r1.docs, r2.docs))

\* C3 witness: a query of two fields returned one document of two, where
\* one field alone returns both documents and the other field alone one.
C3_Witness ==
  /\ Returned
  /\ Len(last.query.es) = 2
  /\ LET r1 == QBExecute(heap, documents, Query(<<last.query.es[1]>>))
         r2 == QBExecute(heap, documents, Query(<<last.query.es[2]>>))
     IN /\ r1.ok /\ r2.ok
        /\ Len(results) = 1
        /\ Len(r1.docs) = 2
        /\ Len(r2.docs) = 1

\* C4: for a literal v that is a string, a number, a boolean or null,
\* {f: v} returns the documents that {f: {$eq: v}} returns.
C4_ImplicitEq ==
  (OneEntry /\ TheEntry.lit /\ Concrete(TheEntry.v)) =>
    LET r == QBExecute(heap, documents,
                       Query(<<QOps(TheEntry.key, <<Op("$eq", TheEntry.v)>>)>>))
    IN last.ok = r.ok /\ results = r.docs

\* C4 witness: {a: "1"} ran over a document whose a is the number 1 and
\* returned nothing, and {a: 1} returned a document.
C4_Witness ==
  /\ OneEntry /\ TheEntry.lit /\ Concrete(TheEntry.v)
  /\ Len(documents) = 1
  /\ \/ /\ TheEntry.v = Str(S_1)
        /\ GetField(heap[documents[1]], "a") = Num(1)
        /\ results = <<>>
     \/ /\ TheEntry.v = Null
        /\ GetField(heap[documents[1]], "a") = Null
        /\ results = documents

\* recognised operators of the one entry that raise on some document
RaisesOn(d) ==
  \E i \in 1..Len(TheEntry.ops) :
    /\ TheEntry.ops[i].op \in KnownOps
    /\ MatchesOperator(heap, GetField(heap[d], TheEntry.key),
                       TheEntry.ops[i].op, TheEntry.ops[i].v) = "throw"

\* C5: an operator object that holds an unrecognised operator returns no
\* document and does not raise, whatever the operand and the documents, also
\* beside recognised operators (that themselves do not raise).
C5_UnknownOperator ==
  (/\ OneEntry /\ ~ TheEntry.lit
   /\ \E i \in 1..Len(TheEntry.ops) : TheEntry.ops[i].op \notin KnownOps
   /\ \A j \in 1..Len(documents) : ~ RaisesOn(documents[j]))
  => (last.ok /\ results = <<>>)

\* C5 witness: {a: {$gte: 1, $bogus: v}} ran over a document whose a is 2,
\* so that the recognised operator holds.
C5_Witness ==
  /\ OneEntry /\ ~ TheEntry.lit /\ Len(TheEntry.ops) = 2
  /\ TheEntry.ops[1] = Op("$gte", Num(1))
  /\ TheEntry.ops[2].op = "$bogus"
  /\ Len(documents) > 0
  /\ GetField(heap[documents[1]], "a") = Num(2)
  /\ results = <<>>

\* C6: a document that lacks the field f is not returned for {f: c} nor for
\* {f: {$eq: c}}, and is returned for {f: {$ne: c}}, for every string,
\* number, boolean or null c.
C6_MissingField ==
  /\ (OneEntry /\ TheEntry.lit /\ Concrete(TheEntry.v)) =>
       \A i \in 1..Len(results) : Has(results[i], TheEntry.key)
  /\ (OneOp /\ TheOp.op = "$eq" /\ Concrete(TheOp.v)) =>
       \A i \in 1..Len(results) : Has(results[i], TheEntry.key)
  /\ (OneOp /\ TheOp.op = "$ne" /\ Concrete(TheOp.v)) =>
       \A j \in 1..Len(documents) :
         ~ Has(documents[j], TheEntry.key) => documents[j] \in Range(results)

\* C6 witness: {a: {$ne: null}} returned a document that has no field a.
C6_Witness ==
  /\ OneOp /\ TheOp.op = "$ne" /\ TheOp.v = Null
  /\ \E i \in 1..Len(results) : ~ Has(results[i], "a")

Comparisons == { "$gt", "$gte", "$lt", "$lte" }
IsNumber(v) == v.t = "number"
IsString(v) == v.t = "string"
\* the ordering op between two numbers or between two strings
Ordered(op, x, y) ==
  CASE op = "$gt" -> IF IsNumber(x) THEN x.n > y.n ELSE StrLess(y.s, x.s)
    [] op = "$gte" -> IF IsNumber(x) THEN x.n >= y.n ELSE ~ StrLess(x.s, y.s)
    [] op = "$lt" -> IF IsNumber(x) THEN x.n < y.n ELSE StrLess(x.s, y.s)
    [] OTHER -> IF IsNumber(x) THEN x.n <= y.n ELSE ~ StrLess(y.s, x.s)

\* C7: $gt, $gte, $lt and $lte never raise and hold only between two
\* numbers or between two strings that are in the order asked for; values
\* of different types never compare.
C7_TypedComparison ==
  (OneOp /\ TheOp.op \in Comparisons) =>
    /\ last.ok
    /\ \A j \in 1..Len(documents) :
         LET fv == GetField(heap[documents[j]], TheEntry.key) IN
         documents[j] \in Range(results) <=>
           /\ (IsNumber(fv) /\ IsNumber(TheOp.v)) \/ (IsString(fv) /\ IsString(TheOp.v))
           /\ Ordered(TheOp.op, fv, TheOp.v)

\* C8 as stated: $in holds exactly when the operand is an array with an
\* element strictly equal (===) to the field value.
C8_InStrictEquality ==
  (OneOp /\ TheOp.op = "$in") =>
    /\ last.ok
    /\ \A j \in 1..Len(documents) :
         LET fv == GetField(heap[documents[j]], TheEntry.key) IN
         documents[j] \in Range(results) <=>
           /\ TheOp.v.t = "ref" /\ heap[TheOp.v.n].k = "array"
           /\ \E e \in Range(heap[TheOp.v.n].e) :
                e.t = fv.t /\ e.n = fv.n /\ e.s = fv.s /\ e.t # "nan"

\* C8 amended: $in holds exactly when the operand is an array with an
\* element that is strictly equal to the field value or is NaN as the field
\* value is; an operand that is no array, and an empty array, match nothing.
C8_InSameValueZero ==
  (OneOp /\ TheOp.op = "$in") =>
    /\ last.ok
    /\ \A j \in 1..Len(documents) :
         LET fv == GetField(heap[documents[j]], TheEntry.key) IN
         documents[j] \in Range(results) <=>
           /\ TheOp.v.t = "ref" /\ heap[TheOp.v.n].k = "array"
           /\ \E e \in Range(heap[TheOp.v.n].e) :
                \/ e.t = fv.t /\ e.n = fv.n /\ e.s = fv.s /\ e.t # "nan"
                \/ e.t = "nan" /\ fv.t = "nan"

\* C8 witness: {a: {$in: [NaN, "a"]}} returned the document whose a is NaN.
C8_Witness ==
  /\ OneOp /\ TheOp.op = "$in" /\ TheOp.v = A3
  /\ Len(results) = 1
  /\ GetField(heap[results[1]], "a") = NaN

(***************************************************************************)
(* Properties of the collection, checked under Spec.                       *)
(***************************************************************************)
Found == last.name \in {"find", "findOne"}

\* C9: a find or findOne, with any query, leaves this.documents as it was
\* (the same documents in the same order, each with the fields it had), and
\* leaves every array and nested object that documents and queries refer to,
\* and the caller's own document, as they were.
C9_ReadOnly ==
  [][ last'.name \in {"find", "findOne", "findOne:call"} =>
        /\ documents' = documents
        /\ \A i \in 1..Len(documents) : heap'[documents'[i]] = heap[documents[i]]
        /\ \A r \in 1..NStatic : heap'[r] = heap[r]
        /\ (callerDoc = 0) = (callerDoc' = 0)
        /\ callerDoc # 0 => heap'[callerDoc'] = heap[callerDoc] ]_vars

\* C9 witness: a find returned copies of some of the stored documents, not
\* all of them.
C9_Witness ==
  /\ last.name = "find" /\ last.ok
  /\ Len(documents) = MaxDocs
  /\ Len(results) > 0 /\ Len(results) < Len(documents)
  /\ Range(results) \cap Range(documents) = {}

\* what a value shows to who reads it: the value, and for an array or a
\* nested object its content
DeepVal(h, v) == [v |-> v, cell |-> IF v.t = "ref" THEN h[v.n] ELSE FreeCell]
DeepDoc(h, d) == [f \in DOMAIN h[d].p |-> DeepVal(h, h[d].p[f])]
\* what find(q) returns, read in depth
FindView(h, docs, q) ==
  LET r == QBExecute(h, docs, q)
  IN [ok |-> r.ok, docs |-> [i \in 1..Len(r.docs) |-> DeepDoc(h, r.docs[i])]]

\* C10: whatever the caller does to the document it inserted or to a
\* document a find returned, nested arrays and objects included, every find
\* returns afterwards what it returned before.
C10_CallerIsolation ==
  [][ last'.name = "mutate" =>
        \A q \in FindQueries :
          FindView(heap', documents', q) = FindView(heap, documents, q) ]_vars

(***************************************************************************)
(* Properties of deleteOne and insertOne, checked under CrudSpec.          *)
(***************************************************************************)
\* the position in docs of the first document that matches query, 0 if none
FirstMatch(h, docs, query) ==
  IF \E i \in 1..Len(docs) : MatchesQuery(h, docs[i], query) = "true"
  THEN CHOOSE i \in 1..Len(docs) :
         /\ MatchesQuery(h, docs[i], query) = "true"
         /\ \A j \in 1..(i - 1) : MatchesQuery(h, docs[j], query) # "true"
  ELSE 0

\* C11: a deleteOne(query) that returns removes the first stored document
\* that matches query and reports deletedCount 1, every other document
\* keeping its content and its place among the others; when no document
\* matches it reports deletedCount 0 and leaves the documents as they were.
C11_DeleteFirstMatch ==
  [][ (last'.name = "deleteOne" /\ last'.ok) =>
        LET i == FirstMatch(heap, documents, last'.query)
        IN IF i = 0
           THEN /\ last'.ret = Deleted(0)
                /\ Stored(heap', documents') = Stored(heap, documents)
           ELSE /\ last'.ret = Deleted(1)
                /\ Stored(heap', documents') = Splice(Stored(heap, documents), i) ]_vars

\* C14: an insertOne of a document appends one document and keeps the
\* others; a document that has an _id field is stored as it is and its _id
\* is the insertedId returned; a document without an _id field is stored
\* with a generated string _id, which is the insertedId returned.
C14_InsertKeepsId ==
  [][ (last'.name = "insertOne" /\ last'.ok) =>
        LET dv == last'.doc
            stored == Stored(heap', documents')
        IN /\ Len(stored) = Len(documents) + 1
           /\ SubSeq(stored, 1, Len(documents)) = Stored(heap, documents)
           /\ last'.ret.acknowledged
           /\ IF "_id" \in DOMAIN dv
              THEN /\ last'.ret.insertedId = dv["_id"]
                   /\ stored[Len(stored)] = dv
              ELSE /\ last'.ret.insertedId.t = "string"
                   /\ stored[Len(stored)] = WithId(dv, last'.ret.insertedId) ]_vars

(***************************************************************************)
(* Properties of updateOne, checked under UpdateSpec.                      *)
(***************************************************************************)
\* an updateOne went on after its findOne and returned, and the collection
\* answers its filter as it did when the call was made
Ran == calls[last'.call]
UpdateRan ==
  /\ last'.name = "updateOne" /\ last'.ok
  /\ Ran.existingDoc = FindOneOn(heap, documents, Ran.filter)

\* C12: an updateOne without upsert that returns applies $set and $unset to
\* the first stored document that matches the filter and reports
\* matchedCount 1, every other document and the number of documents staying
\* as they were; when no document matches it reports matchedCount 0 and
\* modifiedCount 0 and changes nothing.
C12_UpdateFirstMatch ==
  [][ (UpdateRan /\ ~ Ran.upsert) =>
        LET i == FirstMatch(heap, documents, Ran.filter)
            before == Stored(heap, documents)
        IN IF i = 0
           THEN /\ last'.ret = Updated(0, 0)
                /\ Stored(heap', documents') = before
           ELSE /\ last'.ret.matchedCount = 1
                /\ Stored(heap', documents') =
                     [before EXCEPT ![i] = UnsetFields(SetFields(@, Ran.u), Ran.u)] ]_vars

(***************************************************************************)
(* Properties of the upsert, checked under UpsertSpec.                     *)
(***************************************************************************)
\* an updateOne with upsert and a $set went on after its findOne and returned
UpsertRan ==
  /\ last'.name = "updateOne" /\ last'.ok
  /\ Ran.upsert /\ Ran.u.lit /\ Ran.u.hasSet

\* the fields { ...filter } with $set assigned over it has, and the _id
\* insertOne leaves on the copy it stores
MergedKeys(filter, u) ==
  { filter.es[i].key : i \in 1..Len(filter.es) } \cup DOMAIN u.set \cup {"_id"}

\* the value filter gives the field k
FilterValue(filter, k) ==
  filter.es[CHOOSE i \in 1..Len(filter.es) : filter.es[i].key = k].v

\* what every upsert does: when its findOne found no document it reports the
\* upsert and the _id of the new document, which it appends: the fields of
\* $set, the other fields of the filter, and the _id it reports; when its
\* findOne found a document it inserts nothing
UpsertAppends ==
  LET before == Stored(heap, documents)
      after == Stored(heap', documents')
  IN IF ~ Ran.existingDoc.found
     THEN /\ Len(after) = Len(before) + 1
          /\ SubSeq(after, 1, Len(before)) = before
          /\ last'.ret = Upserted(after[Len(after)]["_id"])
          /\ DOMAIN after[Len(after)] = MergedKeys(Ran.filter, Ran.u)
          /\ \A k \in DOMAIN Ran.u.set : after[Len(after)][k] = Ran.u.set[k]
          /\ \A k \in MergedKeys(Ran.filter, Ran.u) \ (DOMAIN Ran.u.set \cup {"_id"}) :
               after[Len(after)][k] = FilterValue(Ran.filter, k)
     ELSE Len(after) = Len(before)

RaceDocs == { [a |-> Num(1)], [a |-> Num(2)] }
RaceFilters == { Query(<<QLit("a", Num(1))>>), Query(<<QLit("a", Num(3))>>) }
RaceUpdates ==
  { Upd(TRUE, [b |-> Num(1)], FALSE, {}),
    Upd(TRUE, [b |-> Num(2)], FALSE, {}) }

RaceNext ==
  \/ \E dv \in RaceDocs : (\A c \in Calls : calls[c].pc = "idle") /\ InsertOne(dv)
  \/ \E c \in Calls, f \in RaceFilters, u \in RaceUpdates :
       CallUpdateOne(c, f, u, TRUE, TRUE)
  \/ \E c \in Calls : ResumeUpdateOne(c)
  \/ \E c \in Calls : ReturnUpsert(c)

RaceSpec == Init /\ [][RaceNext]_vars

(***************************************************************************)
(* Properties of the database, checked under DbSpec and RejectSpec.         *)
(***************************************************************************)
CollOps ==
  { "insertOne", "updateOne:call", "updateOne", "updateOne:return", "deleteOne",
    "clear" }

\* C15: collection(name) for a name the database holds returns the instance
\* it holds and changes nothing; a name keeps its instance until
\* dropCollection or the clear of the database; and insertOne, updateOne,
\* deleteOne and clear on one collection leave the names and the documents
\* of every other collection as they were.
C15_IsolatedAndStable ==
  [][ /\ (/\ last'.name = "collection" /\ last'.ok
          /\ last'.arg.s \in Names /\ collections[last'.arg.s] # 0) =>
            /\ last'.ret = collections[last'.arg.s]
            /\ collections' = collections
            /\ store' = store
      /\ \A n \in Names :
           (collections[n] # 0 /\ collections'[n] # collections[n]) =>
             last'.name \in { "dropCollection", "dbClear" }
      /\ last'.name \in CollOps =>
           /\ collections' = collections
           /\ \A i \in Instances \ { last'.inst } : store'[i] = store[i] ]_vars

\* C15 witness: a deleteOne removed a document of one collection while
\* another collection holds documents.
C15_Witness ==
  /\ last.name = "deleteOne" /\ last.ret = Deleted(1)
  /\ \E n \in Names :
       /\ collections[n] \notin { 0, last.inst }
       /\ store[collections[n]] # <<>>

\* a value that is no object: null, undefined, a string, a number, a boolean
NoObject(v) == v.t # "ref"
\* a name that is no string, or is empty or made of blanks
NoName(v) == v.t # "string" \/ \A i \in 1..Len(v.s) : v.s[i] = 32

\* C16: insertOne of a value that is no object, updateOne with an update
\* that is no object, and collection() with a name that is no string or is
\* empty or blank, all throw and leave the collections, their documents and
\* the identifiers as they were.
C16_InvalidRejected ==
  [][ (\/ last'.name = "insertOne" /\ ~ last'.arg.lit /\ NoObject(last'.arg.v)
       \/ last'.name = "updateOne:call" /\ ~ last'.update.lit /\ NoObject(last'.update.v)
       \/ last'.name = "collection" /\ NoName(last'.arg)) =>
        /\ ~ last'.ok
        /\ collections' = collections
        /\ store' = store
        /\ idCount' = idCount ]_vars

\* C16 witness: insertOne(null) was rejected by a collection that holds a
\* document.
C16_Witness ==
  /\ last.name = "insertOne" /\ ~ last.ok
  /\ last.arg = DocValue(Null)
  /\ store[last.inst] # <<>>

(***************************************************************************)
(* Properties of two updateOne calls in flight at once, checked under      *)
(* RaceSpec.                                                               *)
(***************************************************************************)
\* both calls have returned, they were upserts with the filter f, the second
\* was made while the first was in flight, and no document matched f when
\* the first was made
RacedOn(f) ==
  /\ \A c \in Calls : calls[c].pc = "done" /\ calls[c].ok
  /\ \A c \in Calls : calls[c].filter = f /\ calls[c].upsert /\ calls[c].u.hasSet
  /\ \E c \in Calls : calls[c].overlap
  /\ \E c \in Calls : ~ calls[c].overlap /\ ~ calls[c].existingDoc.found
UpsertReports == { c \in Calls : "upsertedCount" \in DOMAIN calls[c].ret }
MatchCount(f) ==
  Cardinality({ i \in 1..Len(documents) : MatchesQuery(heap, documents[i], f) = "true" })

\* C17: when two upserts with the same filter f were in flight at once on a
\* collection that held no document matching f, exactly one of them reports
\* upsertedCount 1 and, both having returned, exactly one stored document
\* matches f.
C17_UpsertAtomic ==
  \A f \in RaceFilters :
    RacedOn(f) => Cardinality(UpsertReports) = 1 /\ MatchCount(f) = 1

====
